---- MODULE Spec2Model ----
(***************************************************************************)
(* LAB02_Middleware_FastAPI/main.py: a CRUD service over /users that keeps *)
(* its document {users, next_id} in data.json, behind three middlewares    *)
(* (CORS, X-Process-Time, the /admin/ guard).  Sync handlers run on the    *)
(* server's thread pool, so requests interleave at every access to the     *)
(* backing file and to LOCK.                                               *)
(***************************************************************************)
EXTENDS Integers, Sequences, FiniteSets, TLC

\* ------------------------------------------------------------------ bounds
NumThreads == 2
MaxCreates == 2

Threads == 1..NumThreads
Ids == 1..MaxCreates

\* ------------------------------------------------------------------- data
Fields == {"username", "email", "age"}

\* class UserIn: the declared type of each field
UserIn == [username |-> "str", email |-> "str", age |-> "int"]

API_KEY == "secret"

MkBody(present, types, username, email, age) ==
    [present |-> present, types |-> types,
     username |-> username, email |-> email, age |-> age]

ValidBodies ==
    { MkBody(Fields, UserIn, "a", "a@x.com", 30),
      MkBody(Fields, UserIn, "bob", "b@x.com", 7) }

\* bodies that lack a field or carry a value of another JSON type
InvalidBodies ==
    { MkBody(Fields \ {"age"}, UserIn, "a", "a@x.com", 0),
      MkBody(Fields, [UserIn EXCEPT !.age = "str"], "a", "a@x.com", 0),
      MkBody(Fields, [UserIn EXCEPT !.username = "null"], "", "a@x.com", 30) }

NoBody == MkBody({}, UserIn, "", "", 0)

\* mutant: only the presence of the fields is checked, not their types
ValidatesPresenceOnly(body) ==
    \A f \in Fields : f \in body.present

\* request parsing into UserIn: every field present, of its declared type
Validates(body) ==
    \A f \in Fields : f \in body.present /\ body.types[f] = UserIn[f]

\* X-API-Key as request.headers.get returns it: <<>> is None
KeyHeaders == { <<>>, <<"wrong">>, <<"Secret">>, <<API_KEY>> }

MkReq(op, id, key, body) == [op |-> op, id |-> id, key |-> key, body |-> body]

NoReq == MkReq("none", 0, <<>>, NoBody)

Requests ==
    { MkReq("health", 0, <<>>, NoBody) }
    \cup { MkReq("admin", 0, k, NoBody) : k \in KeyHeaders }
    \cup { MkReq("list", 0, <<>>, NoBody) }
    \cup { MkReq("get", i, <<>>, NoBody) : i \in Ids }
    \cup { MkReq("post", 0, <<>>, b) : b \in ValidBodies \cup InvalidBodies }
    \cup { MkReq("put", i, <<>>, b) : i \in Ids, b \in ValidBodies \cup InvalidBodies }
    \cup { MkReq("delete", i, <<>>, NoBody) : i \in Ids }

\* request.url.path, as its segments
Path(r) ==
    CASE r.op = "health" -> <<"health">>
      [] r.op = "admin"  -> <<"admin", "secret">>
      [] r.op \in {"get", "put", "delete"} -> <<"users", "{user_id}">>
      [] OTHER           -> <<"users">>

IsMutating(r) == r.op \in {"post", "put", "delete"}
IsReader(r) == r.op \in {"list", "get"}

\* ------------------------------------------------------------- the document
DefaultDoc == [users |-> <<>>, next_id |-> 1]

\* placeholder for "no document": an unused local, an unparseable file
NoDoc == [users |-> <<>>, next_id |-> 0]

MkUser(id, body) ==
    [id |-> id, username |-> body.username, email |-> body.email, age |-> body.age]

Digits(n) == IF n < 10 THEN 1 ELSE IF n < 100 THEN 2 ELSE 3

\* characters json.dump(..., indent=2) writes for one user record
UserLen(u) ==
    6 + (14 + Digits(u.id)) + (22 + Len(u.username))
      + (19 + Len(u.email)) + (14 + Digits(u.age)) + 5

RECURSIVE SumLen(_)
SumLen(us) == IF us = <<>> THEN 0 ELSE UserLen(Head(us)) + SumLen(Tail(us))

\* characters json.dump(db, f, ensure_ascii=False, indent=2) writes
DumpLen(d) ==
    IF d.users = <<>>
    THEN 32 + Digits(d.next_id)
    ELSE 36 + Digits(d.next_id) + SumLen(d.users) + 2 * (Len(d.users) - 1)

IdsOf(us) == { us[i].id : i \in 1..Len(us) }

\* mutant: user_id taken as the position in the list
FindByPosition(us, id) ==
    IF id \in 1..Len(us) THEN id ELSE 0

\* for i, u in enumerate(db["users"]): if u["id"] == user_id -> first match, 0 if none
FindIndex(us, id) ==
    IF \E i \in 1..Len(us) : us[i].id = id
    THEN CHOOSE i \in 1..Len(us) :
            us[i].id = id /\ \A j \in 1..(i - 1) : us[j].id # id
    ELSE 0

RemoveAt(us, i) == SubSeq(us, 1, i - 1) \o SubSeq(us, i + 1, Len(us))

\* ------------------------------------------------------------- responses
MkBodyOut(text, users) == [text |-> text, users |-> users]

MkResp(status, body) == [status |-> status, headers |-> {}, body |-> body]

NoResp == MkResp(0, MkBodyOut("", <<>>))

Unauthorized == MkResp(401, MkBodyOut("Unauthorized (missing/invalid X-API-Key)", <<>>))
NotFound == MkResp(404, MkBodyOut("User not found", <<>>))
Unprocessable == MkResp(422, MkBodyOut("validation error", <<>>))
\* an exception no handler catches: json.load on an unparseable file
ServerError == MkResp(500, MkBodyOut("Internal Server Error", <<>>))
Welcome == MkResp(200, MkBodyOut("Welcome, admin.", <<>>))
HealthOk == MkResp(200, MkBodyOut("ok", <<>>))

\* response_model=UserOut / List[UserOut]: id, username, email, age of each record
UserOut(u) == [id |-> u.id, username |-> u.username, email |-> u.email, age |-> u.age]

UsersOut(us) == [i \in 1..Len(us) |-> UserOut(us[i])]

\* ------------------------------------------------------------- middleware
Reverse(s) == [i \in 1..Len(s) |-> s[Len(s) + 1 - i]]

\* the order in which main.py registers its middlewares
Registered == <<"cors", "timing_header", "admin_guard">>

\* each registration is inserted in front of the earlier ones, so the stack,
\* outermost first, is the registration order reversed
MiddlewareStack == Reverse(Registered)

\* mutant: a request without the header is let through
GuardRejectsWrongKeyOnly(r) ==
    /\ Len(Path(r)) >= 2
    /\ Head(Path(r)) = "admin"
    /\ r.key # <<>>
    /\ r.key # <<API_KEY>>

\* admin_guard: the condition under which it returns the 401 itself
GuardRejects(r) ==
    /\ Len(Path(r)) >= 2
    /\ Head(Path(r)) = "admin"
    /\ r.key # <<API_KEY>>

\* index (outermost = 1) of the middleware that answers without calling
\* call_next, or 0 when the request reaches the router
ShortCircuitAt(r) ==
    IF GuardRejects(r)
    THEN CHOOSE i \in 1..Len(MiddlewareStack) : MiddlewareStack[i] = "admin_guard"
    ELSE 0

\* what a middleware does to the response its call_next returned
AfterCallNext(mw, resp) ==
    CASE mw = "timing_header" ->
            [resp EXCEPT !.headers = @ \cup {"X-Process-Time"}]
      \* every request is taken to carry an Origin header
      [] mw = "cors" ->
            [resp EXCEPT !.headers = @ \cup {"Access-Control-Allow-Origin"}]
      [] OTHER -> resp

\* a response produced at stack position `depth` returns through the
\* middlewares outside it: depth - 1, ..., 1
RECURSIVE Outward(_, _)
Outward(resp, depth) ==
    IF depth <= 1 THEN resp
    ELSE Outward(AfterCallNext(MiddlewareStack[depth - 1], resp), depth - 1)

\* a response of the router (a handler's return value, an HTTPException,
\* a validation error) passes every middleware
FromRouter(resp) == Outward(resp, Len(MiddlewareStack) + 1)

\* ------------------------------------------------------------------ state
VARIABLES
    pc,          \* per thread: where its request stands
    req,         \* per thread: the request it serves
    resp,        \* per thread: the response sent (pc = "done")
    handled,     \* per thread: the route handler was invoked for the request
    db,          \* per thread: the handler's local db, after its mutation
    lock,        \* LOCK: 0 when free, else the thread holding it
    exists,      \* os.path.exists(DATA_FILE)
    flen,        \* length of data.json
    fvalid,      \* data.json parses as a JSON document
    fdoc,        \* the document data.json parses to (NoDoc when it does not)
    issued,      \* history: the ids the 201 responses carried, in order
    deletedIds,  \* history: the ids whose DELETE answered 204
    preDoc,      \* history: the persisted document when the latest request arrived
    lastCreated, \* history: the record of the latest 201, until the next save_db
    latest       \* history: per id, the fields of its latest 201 or 200 of a
                 \* PUT, until its DELETE answers 204

vars == <<pc, req, resp, handled, db, lock, exists, flen, fvalid, fdoc,
          issued, deletedIds, preDoc, lastCreated, latest>>

file == <<exists, flen, fvalid, fdoc>>
history == <<issued, deletedIds, preDoc, lastCreated, latest>>

NoUser == [id |-> 0, username |-> "", email |-> "", age |-> 0]

\* the persisted document: the default one while the file is yet to be
\* created, NoDoc while the file does not parse
Document ==
    IF ~exists THEN DefaultDoc ELSE IF fvalid THEN fdoc ELSE NoDoc

Init ==
    /\ pc = [t \in Threads |-> "idle"]
    /\ req = [t \in Threads |-> NoReq]
    /\ resp = [t \in Threads |-> NoResp]
    /\ handled = [t \in Threads |-> FALSE]
    /\ db = [t \in Threads |-> NoDoc]
    /\ lock = 0
    /\ \/ exists = FALSE /\ flen = 0 /\ fvalid = FALSE /\ fdoc = NoDoc
       \/ exists = TRUE /\ flen = DumpLen(DefaultDoc) /\ fvalid = TRUE
                        /\ fdoc = DefaultDoc
    /\ issued = <<>>
    /\ deletedIds = {}
    /\ preDoc = NoDoc
    /\ lastCreated = NoUser
    /\ latest = [i \in Ids |-> NoUser]

\* ------------------------------------------------------------- the file
\* open(DATA_FILE, "w"): creates the file or truncates it
OpenForWrite ==
    /\ exists' = TRUE
    /\ flen' = 0
    /\ fvalid' = FALSE
    /\ fdoc' = NoDoc

\* json.dump(d, f) and the close of f: the text of d lands at offset 0.  It
\* is the whole file unless another handle wrote a longer text meanwhile,
\* whose tail then stays behind it.
DumpAndClose(d) ==
    /\ exists' = exists
    /\ flen' = IF DumpLen(d) >= flen THEN DumpLen(d) ELSE flen
    /\ fvalid' = (DumpLen(d) >= flen)
    /\ fdoc' = IF DumpLen(d) >= flen THEN d ELSE NoDoc

Go(t, to) == pc' = [pc EXCEPT ![t] = to]

Reply(t, r) ==
    /\ pc' = [pc EXCEPT ![t] = "done"]
    /\ resp' = [resp EXCEPT ![t] = r]

InFlightPosts == { t \in Threads : req[t].op = "post" /\ pc[t] \notin {"idle", "done"} }

\* ------------------------------------------------------- request arrival
\* A request enters the middleware stack.  The guard may answer it; the
\* router answers a body that does not parse into UserIn; otherwise the
\* route handler is called.
Receive(t, r) ==
    /\ pc[t] = "idle"
    /\ r.op = "post" /\ Validates(r.body)
            => Len(issued) + Cardinality(InFlightPosts) < MaxCreates
    /\ req' = [req EXCEPT ![t] = r]
    /\ preDoc' = Document
    /\ IF ShortCircuitAt(r) > 0
       THEN /\ Reply(t, Outward(Unauthorized, ShortCircuitAt(r)))
            /\ UNCHANGED handled
       ELSE IF r.op \in {"post", "put"} /\ ~Validates(r.body)
       THEN /\ Reply(t, FromRouter(Unprocessable))
            /\ UNCHANGED handled
       ELSE /\ Go(t, CASE r.op = "health" -> "health"
                        [] r.op = "admin" -> "admin"
                        [] IsReader(r) -> "ensure"
                        [] OTHER -> "acquire")
            /\ handled' = [handled EXCEPT ![t] = TRUE]
            /\ UNCHANGED resp
    /\ UNCHANGED <<db, lock, file, issued, deletedIds, lastCreated, latest>>

\* def health()
Health(t) ==
    /\ pc[t] = "health"
    /\ Reply(t, FromRouter(HealthOk))
    /\ UNCHANGED <<req, handled, db, lock, file, history>>

\* def admin_secret()
AdminSecret(t) ==
    /\ pc[t] = "admin"
    /\ Reply(t, FromRouter(Welcome))
    /\ UNCHANGED <<req, handled, db, lock, file, history>>

\* mutant: the handler enters without waiting for the lock
AcquireNoWait(t) ==
    /\ pc[t] = "acquire"
    /\ lock' = t
    /\ Go(t, "ensure")
    /\ UNCHANGED <<req, resp, handled, db, file, history>>

\* with LOCK: entry
Acquire(t) ==
    /\ pc[t] = "acquire"
    /\ lock = 0
    /\ lock' = t
    /\ Go(t, "ensure")
    /\ UNCHANGED <<req, resp, handled, db, file, history>>

\* mutant: the default document is written whether the file exists or not
EnsureCheckAlwaysWrites(t) ==
    /\ pc[t] = "ensure"
    /\ Go(t, "ens_open")
    /\ UNCHANGED <<req, resp, handled, db, lock, file, history>>

\* _ensure_db: if not os.path.exists(DATA_FILE)
EnsureCheck(t) ==
    /\ pc[t] = "ensure"
    /\ Go(t, IF exists THEN "load" ELSE "ens_open")
    /\ UNCHANGED <<req, resp, handled, db, lock, file, history>>

\* _ensure_db: open(DATA_FILE, "w")
EnsureOpen(t) ==
    /\ pc[t] = "ens_open"
    /\ OpenForWrite
    /\ Go(t, "ens_close")
    /\ UNCHANGED <<req, resp, handled, db, lock, history>>

\* _ensure_db: json.dump of the default document, and the close
EnsureClose(t) ==
    /\ pc[t] = "ens_close"
    /\ DumpAndClose(DefaultDoc)
    /\ Go(t, "load")
    /\ UNCHANGED <<req, resp, handled, db, lock, history>>

\* ---------------------------------------------------------- read handlers
\* mutant: an unparseable file is answered as an empty list
ListUsersSwallowsFault(t) ==
    /\ pc[t] = "load"
    /\ req[t].op = "list"
    /\ Reply(t, FromRouter(MkResp(200, MkBodyOut("users", UsersOut(fdoc.users)))))
    /\ UNCHANGED <<req, handled, db, lock, file, history>>

\* list_users: json.load of the file as it is now, then return db["users"]
ListUsers(t) ==
    /\ pc[t] = "load"
    /\ req[t].op = "list"
    /\ Reply(t, IF fvalid
                THEN FromRouter(MkResp(200, MkBodyOut("users", UsersOut(fdoc.users))))
                ELSE ServerError)
    /\ UNCHANGED <<req, handled, db, lock, file, history>>

\* get_user: json.load, then the scan for user_id
GetUser(t) ==
    /\ pc[t] = "load"
    /\ req[t].op = "get"
    /\ Reply(t, IF ~fvalid THEN ServerError
                ELSE IF FindIndex(fdoc.users, req[t].id) = 0 THEN FromRouter(NotFound)
                ELSE FromRouter(MkResp(200, MkBodyOut("user",
                        <<UserOut(fdoc.users[FindIndex(fdoc.users, req[t].id)])>>))))
    /\ UNCHANGED <<req, handled, db, lock, file, history>>

\* ------------------------------------------------------ mutating handlers
\* mutant: the lock is taken with acquire() and an exception skips release()
LoadFaultKeepsLock(t) ==
    /\ Reply(t, ServerError)
    /\ UNCHANGED <<req, handled, db, lock, file, history>>

\* json.load raised inside "with LOCK": the lock is released on the way out
LoadFault(t) ==
    /\ lock' = 0
    /\ Reply(t, ServerError)
    /\ UNCHANGED <<req, handled, db, file, history>>

\* mutant: next_id is not advanced
CreatedNoBump(d, body) ==
    [users |-> Append(d.users, MkUser(d.next_id, body)), next_id |-> d.next_id]

\* mutant: the new id is the number of stored users plus one
CreatedByCount(d, body) ==
    [users |-> Append(d.users, MkUser(Len(d.users) + 1, body)),
     next_id |-> Len(d.users) + 2]

\* mutant: the new record is inserted at the front of the list
CreatedInFront(d, body) ==
    [users |-> <<MkUser(d.next_id, body)>> \o d.users, next_id |-> d.next_id + 1]

\* create_user: new_id = db.get("next_id", 1); append rec; next_id = new_id + 1
Created(d, body) ==
    [users |-> Append(d.users, MkUser(d.next_id, body)), next_id |-> d.next_id + 1]

\* mutant: the record is removed and the new one appended at the end
UpdatedMoveToEnd(d, id, body) ==
    [d EXCEPT !.users =
        Append(RemoveAt(d.users, FindIndex(d.users, id)), MkUser(id, body))]

\* update_user: db["users"][i] = {"id": user_id, **user.dict()}
Updated(d, id, body) ==
    [d EXCEPT !.users[FindIndex(d.users, id)] = MkUser(id, body)]

\* mutant: db["users"].pop() removes the last record
DeletedLast(d, id) ==
    [d EXCEPT !.users = SubSeq(d.users, 1, Len(d.users) - 1)]

\* mutant: next_id is taken back by one on a delete
DeletedRewind(d, id) ==
    [users |-> RemoveAt(d.users, FindIndex(d.users, id)),
     next_id |-> d.next_id - 1]

\* delete_user: db["users"].pop(i)
Deleted(d, id) ==
    [d EXCEPT !.users = RemoveAt(d.users, FindIndex(d.users, id))]

\* create_user: db = load_db() and the mutation of db
CreateLoad(t) ==
    /\ pc[t] = "load"
    /\ req[t].op = "post"
    /\ IF ~fvalid THEN LoadFault(t)
       ELSE /\ db' = [db EXCEPT ![t] = Created(fdoc, req[t].body)]
            /\ Go(t, "save_open")
            /\ UNCHANGED <<req, resp, handled, lock, file, history>>

\* mutant: an unknown id is inserted instead of answered 404
UpdateLoadUpsert(t) ==
    /\ pc[t] = "load"
    /\ req[t].op = "put"
    /\ IF ~fvalid THEN LoadFault(t)
       ELSE /\ db' = [db EXCEPT ![t] =
                    IF FindIndex(fdoc.users, req[t].id) = 0
                    THEN [fdoc EXCEPT !.users =
                            Append(@, MkUser(req[t].id, req[t].body))]
                    ELSE Updated(fdoc, req[t].id, req[t].body)]
            /\ Go(t, "save_open")
            /\ UNCHANGED <<req, resp, handled, lock, file, history>>

\* update_user: db = load_db(), the scan, the replacement or the 404
UpdateLoad(t) ==
    /\ pc[t] = "load"
    /\ req[t].op = "put"
    /\ IF ~fvalid THEN LoadFault(t)
       ELSE IF FindIndex(fdoc.users, req[t].id) = 0
       THEN /\ lock' = 0
            /\ Reply(t, FromRouter(NotFound))
            /\ UNCHANGED <<req, handled, db, file, history>>
       ELSE /\ db' = [db EXCEPT ![t] = Updated(fdoc, req[t].id, req[t].body)]
            /\ Go(t, "save_open")
            /\ UNCHANGED <<req, resp, handled, lock, file, history>>

\* mutant: a miss pops the last record (pop(-1)) instead of answering 404
DeleteLoadPopOnMiss(t) ==
    /\ pc[t] = "load"
    /\ req[t].op = "delete"
    /\ IF ~fvalid THEN LoadFault(t)
       ELSE /\ db' = [db EXCEPT ![t] =
                    IF FindIndex(fdoc.users, req[t].id) = 0
                    THEN [fdoc EXCEPT !.users = SubSeq(@, 1, Len(@) - 1)]
                    ELSE Deleted(fdoc, req[t].id)]
            /\ Go(t, "save_open")
            /\ UNCHANGED <<req, resp, handled, lock, file, history>>

\* delete_user: db = load_db(), the scan, the pop or the 404
DeleteLoad(t) ==
    /\ pc[t] = "load"
    /\ req[t].op = "delete"
    /\ IF ~fvalid THEN LoadFault(t)
       ELSE IF FindIndex(fdoc.users, req[t].id) = 0
       THEN /\ lock' = 0
            /\ Reply(t, FromRouter(NotFound))
            /\ UNCHANGED <<req, handled, db, file, history>>
       ELSE /\ db' = [db EXCEPT ![t] = Deleted(fdoc, req[t].id)]
            /\ Go(t, "save_open")
            /\ UNCHANGED <<req, resp, handled, lock, file, history>>

\* save_db: open(DATA_FILE, "w")
SaveOpen(t) ==
    /\ pc[t] = "save_open"
    /\ OpenForWrite
    /\ Go(t, "save_close")
    /\ lastCreated' = NoUser
    /\ UNCHANGED <<req, resp, handled, db, lock, issued, deletedIds, preDoc, latest>>

\* create_user: json.dump(db) and the close, return rec, the lock released
CreateSave(t) ==
    /\ pc[t] = "save_close"
    /\ req[t].op = "post"
    /\ DumpAndClose(db[t])
    /\ lock' = 0
    /\ Reply(t, FromRouter(MkResp(201,
            MkBodyOut("user", <<UserOut(db[t].users[Len(db[t].users)])>>))))
    /\ issued' = Append(issued, db[t].users[Len(db[t].users)].id)
    /\ lastCreated' = [id |-> db[t].users[Len(db[t].users)].id,
                       username |-> req[t].body.username,
                       email |-> req[t].body.email,
                       age |-> req[t].body.age]
    /\ latest' = (db[t].users[Len(db[t].users)].id :>
                    [id |-> db[t].users[Len(db[t].users)].id,
                     username |-> req[t].body.username,
                     email |-> req[t].body.email,
                     age |-> req[t].body.age]) @@ latest
    /\ db' = [db EXCEPT ![t] = NoDoc]
    /\ UNCHANGED <<req, handled, deletedIds, preDoc>>

\* update_user: json.dump(db) and the close, return updated, the lock released
UpdateSave(t) ==
    /\ pc[t] = "save_close"
    /\ req[t].op = "put"
    /\ DumpAndClose(db[t])
    /\ lock' = 0
    /\ Reply(t, FromRouter(MkResp(200,
            MkBodyOut("user", <<UserOut(MkUser(req[t].id, req[t].body))>>))))
    /\ latest' = (req[t].id :>
                    [id |-> req[t].id,
                     username |-> req[t].body.username,
                     email |-> req[t].body.email,
                     age |-> req[t].body.age]) @@ latest
    /\ db' = [db EXCEPT ![t] = NoDoc]
    /\ UNCHANGED <<req, handled, issued, deletedIds, preDoc, lastCreated>>

\* delete_user: json.dump(db) and the close, return, the lock released
DeleteSave(t) ==
    /\ pc[t] = "save_close"
    /\ req[t].op = "delete"
    /\ DumpAndClose(db[t])
    /\ lock' = 0
    /\ Reply(t, FromRouter(MkResp(204, MkBodyOut("", <<>>))))
    /\ deletedIds' = deletedIds \cup {req[t].id}
    /\ latest' = (req[t].id :> NoUser) @@ latest
    /\ db' = [db EXCEPT ![t] = NoDoc]
    /\ UNCHANGED <<req, handled, issued, preDoc, lastCreated>>

\* save_db: open(DATA_FILE, "w") raises (an I/O failure); the exception
\* leaves "with LOCK" and is answered 500
SaveOpenFault(t) ==
    /\ pc[t] = "save_open"
    /\ lock' = 0
    /\ Reply(t, ServerError)
    /\ db' = [db EXCEPT ![t] = NoDoc]
    /\ UNCHANGED <<req, handled, file, history>>

\* save_db: json.dump or the close raises after the file was truncated
SaveCloseFault(t) ==
    /\ pc[t] = "save_close"
    /\ lock' = 0
    /\ Reply(t, ServerError)
    /\ db' = [db EXCEPT ![t] = NoDoc]
    /\ UNCHANGED <<req, handled, file, history>>

\* the response is sent; the thread goes back to the pool
Finish(t) ==
    /\ pc[t] = "done"
    /\ pc' = [pc EXCEPT ![t] = "idle"]
    /\ req' = [req EXCEPT ![t] = NoReq]
    /\ resp' = [resp EXCEPT ![t] = NoResp]
    /\ handled' = [handled EXCEPT ![t] = FALSE]
    /\ UNCHANGED <<db, lock, file, history>>

\* --------------------------------------------------------- specifications
AllIdle == \A t \in Threads : pc[t] = "idle"

\* requests served concurrently by the thread pool
Next ==
    \E t \in Threads :
        \/ \E r \in Requests : Receive(t, r)
        \/ Health(t)
        \/ AdminSecret(t)
        \/ Acquire(t)
        \/ EnsureCheck(t)
        \/ EnsureOpen(t)
        \/ EnsureClose(t)
        \/ ListUsers(t)
        \/ GetUser(t)
        \/ CreateLoad(t)
        \/ UpdateLoad(t)
        \/ DeleteLoad(t)
        \/ SaveOpen(t)
        \/ CreateSave(t)
        \/ UpdateSave(t)
        \/ DeleteSave(t)
        \/ Finish(t)

Spec == Init /\ [][Next]_vars

\* one request at a time: a request arrives only when no other is in flight
NextSeq ==
    \E t \in Threads :
        \/ AllIdle /\ \E r \in Requests : Receive(t, r)
        \/ Health(t)
        \/ AdminSecret(t)
        \/ Acquire(t)
        \/ EnsureCheck(t)
        \/ EnsureOpen(t)
        \/ EnsureClose(t)
        \/ ListUsers(t)
        \/ GetUser(t)
        \/ CreateLoad(t)
        \/ UpdateLoad(t)
        \/ DeleteLoad(t)
        \/ SaveOpen(t)
        \/ CreateSave(t)
        \/ UpdateSave(t)
        \/ DeleteSave(t)
        \/ Finish(t)

SpecSeq == Init /\ [][NextSeq]_vars

\* concurrent POST, PUT and DELETE requests only
NextMut ==
    \E t \in Threads :
        \/ \E r \in Requests : IsMutating(r) /\ Receive(t, r)
        \/ Acquire(t)
        \/ EnsureCheck(t)
        \/ EnsureOpen(t)
        \/ EnsureClose(t)
        \/ CreateLoad(t)
        \/ UpdateLoad(t)
        \/ DeleteLoad(t)
        \/ SaveOpen(t)
        \/ CreateSave(t)
        \/ UpdateSave(t)
        \/ DeleteSave(t)
        \/ Finish(t)

SpecMut == Init /\ [][NextMut]_vars

\* listings and mutating requests served concurrently, save_db may fail;
\* a thread that can take a step of its handler eventually does, and a
\* thread waiting for LOCK gets it if it is free again and again
LiveRequests ==
    { r \in Requests :
        \/ r.op \in {"list", "delete"}
        \/ r.op \in {"post", "put"} /\ Validates(r.body) }

Run(t) ==
    \/ EnsureCheck(t)
    \/ EnsureOpen(t)
    \/ EnsureClose(t)
    \/ ListUsers(t)
    \/ CreateLoad(t)
    \/ UpdateLoad(t)
    \/ DeleteLoad(t)
    \/ SaveOpen(t)
    \/ CreateSave(t)
    \/ UpdateSave(t)
    \/ DeleteSave(t)
    \/ Finish(t)

NextLive ==
    \E t \in Threads :
        \/ \E r \in LiveRequests : Receive(t, r)
        \/ Acquire(t)
        \/ Run(t)
        \/ SaveOpenFault(t)
        \/ SaveCloseFault(t)

SpecLive ==
    /\ Init
    /\ [][NextLive]_vars
    /\ \A t \in Threads : WF_vars(Run(t)) /\ SF_vars(Acquire(t))

\* ------------------------------------------------------------------ claims
Done(t) == pc[t] = "done"

ReturnedUser(t) == resp[t].body.users[1]

\* C1: under any interleaving of POST, PUT and DELETE requests, the records
\* of the persisted document have pairwise distinct ids and next_id exceeds
\* every id a 201 response ever carried, deleted or not.
C1_DistinctIdsNextIdAbove ==
    fvalid =>
        /\ \A i, j \in 1..Len(fdoc.users) :
                i # j => fdoc.users[i].id # fdoc.users[j].id
        /\ \A k \in 1..Len(issued) : fdoc.next_id > issued[k]
        /\ \A i \in 1..Len(fdoc.users) : fdoc.next_id > fdoc.users[i].id

\* a second user was created after the first was deleted
C1_Witness ==
    /\ fvalid
    /\ Len(issued) = 2
    /\ issued[1] \in deletedIds
    /\ IdsOf(fdoc.users) = {issued[2]}

\* C2: with requests served one after another, the id of every 201 is the
\* next_id the store held when the POST arrived, and the ids of the 201s
\* strictly increase in the order they were returned.
C2_CreateReturnsNextId ==
    /\ \A t \in Threads :
            Done(t) /\ req[t].op = "post" /\ resp[t].status = 201
                => ReturnedUser(t).id = preDoc.next_id
    /\ \A i, j \in 1..Len(issued) : i < j => issued[i] < issued[j]

\* a POST answered 201 after an earlier user was created and deleted
C2_Witness ==
    \E t \in Threads :
        /\ Done(t) /\ req[t].op = "post" /\ resp[t].status = 201
        /\ Len(issued) = 2
        /\ issued[1] \in deletedIds

\* C3: no two mutating requests are inside "with LOCK" at once, and the one
\* inside is the holder of the lock.
InSection(t) ==
    /\ IsMutating(req[t])
    /\ pc[t] \in {"ensure", "ens_open", "ens_close", "load", "save_open", "save_close"}

C3_MutualExclusion ==
    /\ \A t, u \in Threads : t # u => ~(InSection(t) /\ InSection(u))
    /\ \A t \in Threads : InSection(t) => lock = t

\* one mutating request between its load and its save, another waiting
C3_Witness ==
    \E t, u \in Threads :
        /\ t # u
        /\ pc[t] = "save_close"
        /\ pc[u] = "acquire"

\* C4: with requests served one after another, once DELETE of an id
\* answered 204, every GET of that id answers 404, no 201 carries that id
\* and no listing holds it.
C4_DeletedStaysDeleted ==
    \A t \in Threads :
        /\ Done(t) /\ req[t].op = "get" /\ req[t].id \in deletedIds
                => resp[t].status = 404
        /\ Done(t) /\ req[t].op = "post" /\ resp[t].status = 201
                => ReturnedUser(t).id \notin deletedIds
        /\ Done(t) /\ req[t].op = "list"
                => /\ resp[t].status = 200
                   /\ \A i \in 1..Len(resp[t].body.users) :
                        resp[t].body.users[i].id \notin deletedIds

\* POST, POST, DELETE 1, GET 1 -> 404 while user 2 is still stored
C4_Witness ==
    \E t \in Threads :
        /\ Done(t) /\ req[t].op = "get" /\ req[t].id = 1
        /\ resp[t].status = 404
        /\ issued = <<1, 2>>
        /\ deletedIds = {1}
        /\ IdsOf(fdoc.users) = {2}

\* C5: with requests served one after another, a GET of the id of the
\* latest 201, with no save_db since, answers 200 with the submitted
\* username, email and age and that id.
C5_GetAfterPostRoundTrip ==
    \A t \in Threads :
        Done(t) /\ req[t].op = "get" /\ lastCreated # NoUser
                /\ req[t].id = lastCreated.id
            => /\ resp[t].status = 200
               /\ resp[t].body.users = <<lastCreated>>

\* the GET of a user created after another one was deleted
C5_Witness ==
    \E t \in Threads :
        /\ Done(t) /\ req[t].op = "get"
        /\ lastCreated # NoUser
        /\ req[t].id = lastCreated.id
        /\ lastCreated.username = "bob"
        /\ deletedIds # {}

\* C6: with requests served one after another, a PUT of an id no stored
\* record has answers 404 and the persisted document is the one the
\* request found.
C6_PutUnknownIdNoChange ==
    \A t \in Threads :
        Done(t) /\ req[t].op = "put" /\ Validates(req[t].body)
                /\ req[t].id \notin IdsOf(preDoc.users)
            => /\ resp[t].status = 404
               /\ Document = preDoc

\* a PUT of an unknown id against a store that holds another user
C6_Witness ==
    \E t \in Threads :
        /\ Done(t) /\ req[t].op = "put" /\ resp[t].status = 404
        /\ preDoc.users # <<>>

\* C7: a request to /admin/secret whose X-API-Key is absent or differs from
\* API_KEY is answered 401 without admin_secret being invoked; with the
\* matching key it is answered 200 with the welcome payload.
C7_AdminGuard ==
    \A t \in Threads :
        req[t].op = "admin" =>
            IF req[t].key = <<API_KEY>>
            THEN Done(t) => /\ resp[t].status = 200
                            /\ resp[t].body.text = "Welcome, admin."
                            /\ handled[t]
            ELSE /\ ~handled[t]
                 /\ pc[t] # "admin"
                 /\ Done(t) /\ resp[t].status = 401

\* a request without the header answered 401 and one with the key answered 200
C7_Witness ==
    \E t, u \in Threads :
        /\ Done(t) /\ req[t].op = "admin" /\ req[t].key = <<>>
        /\ resp[t].status = 401
        /\ Done(u) /\ req[u].op = "admin" /\ req[u].key = <<API_KEY>>
        /\ resp[u].status = 200

\* C8: every response carries an X-Process-Time header, the guard's 401
\* included.
C8_EveryResponseTimed ==
    \A t \in Threads : Done(t) => "X-Process-Time" \in resp[t].headers

\* C9: a POST or PUT whose body lacks a field or carries a value of another
\* type is answered 422 with no handler invoked and the lock not taken by
\* it, and its arrival leaves the file and the lock as they were.
Malformed(b) ==
    \E f \in Fields : f \notin b.present \/ b.types[f] # UserIn[f]

Rejected(r) == r.op \in {"post", "put"} /\ Malformed(r.body)

C10_CreatedUserStays ==
    fvalid =>
        \A k \in 1..Len(issued) :
            issued[k] \in deletedIds \/ issued[k] \in IdsOf(fdoc.users)

\* C11: under any interleaving of concurrent POST, PUT and DELETE requests
\* (no readers), the ids of the 201 responses are pairwise distinct, the
\* persisted document holds every created user not deleted since, and
\* next_id has advanced by exactly the number of 201 responses.
C11_NoLostCreate ==
    /\ \A i, j \in 1..Len(issued) : i # j => issued[i] # issued[j]
    /\ fvalid =>
          /\ fdoc.next_id = 1 + Len(issued)
          /\ \A k \in 1..Len(issued) :
                issued[k] \in deletedIds \/ issued[k] \in IdsOf(fdoc.users)
          /\ Len(fdoc.users) = Cardinality(IdsOf(fdoc.users))

\* two POSTs in flight at once, both answered 201, both records stored
C11_Witness ==
    \E t, u \in Threads :
        /\ t # u
        /\ Done(t) /\ req[t].op = "post" /\ resp[t].status = 201
        /\ Done(u) /\ req[u].op = "post" /\ resp[u].status = 201
        /\ fvalid
        /\ IdsOf(fdoc.users) = {1, 2}
        /\ fdoc.next_id = 3

\* C12: with requests served one after another, a PUT answered 200 leaves
\* the users sequence with the same length and order, the matching record
\* replaced in place by the submitted username, email and age under the
\* same id, every other record and next_id as they were.
Submitted(t) ==
    [id |-> req[t].id, username |-> req[t].body.username,
     email |-> req[t].body.email, age |-> req[t].body.age]

C12_PutReplacesInPlace ==
    \A t \in Threads :
        Done(t) /\ req[t].op = "put" /\ resp[t].status = 200
            => /\ Document.next_id = preDoc.next_id
               /\ Len(Document.users) = Len(preDoc.users)
               /\ \A i \in 1..Len(preDoc.users) :
                    Document.users[i] =
                        IF preDoc.users[i].id = req[t].id
                        THEN Submitted(t) ELSE preDoc.users[i]
               /\ resp[t].body.users = <<Submitted(t)>>

\* the first of two stored users gets another username
C12_Witness ==
    \E t \in Threads :
        /\ Done(t) /\ req[t].op = "put" /\ resp[t].status = 200
        /\ Len(preDoc.users) = 2
        /\ preDoc.users[1].id = req[t].id
        /\ preDoc.users[1].username # req[t].body.username

\* C13: with requests served one after another, a DELETE answered 204
\* removes the one record of that id, keeps the others in their order and
\* leaves next_id as it was; no request lowers next_id.
RECURSIVE Without(_, _)
Without(us, id) ==
    IF us = <<>> THEN <<>>
    ELSE IF Head(us).id = id THEN Without(Tail(us), id)
    ELSE <<Head(us)>> \o Without(Tail(us), id)

C19_DeleteUnknownIdNoChange ==
    \A t \in Threads :
        Done(t) /\ req[t].op = "delete"
                /\ req[t].id \notin IdsOf(preDoc.users)
            => /\ resp[t].status = 404
               /\ Document = preDoc

\* a DELETE of an unknown id against a store that holds another user
C19_Witness ==
    \E t \in Threads :
        /\ Done(t) /\ req[t].op = "delete" /\ resp[t].status = 404
        /\ preDoc.users # <<>>

\* C14: with requests served one after another, GET /users answers 200 with
\* the users created and not deleted since, by ascending id, each with the
\* fields of its latest 201 or 200 of a PUT.
RECURSIVE LiveFrom(_, _)
LiveFrom(i, n) ==
    IF i > n THEN <<>>
    ELSE IF i \in DOMAIN latest /\ latest[i] # NoUser
    THEN <<latest[i]>> \o LiveFrom(i + 1, n)
    ELSE LiveFrom(i + 1, n)

C14_ListIsLiveUsersInOrder ==
    \A t \in Threads :
        Done(t) /\ req[t].op = "list"
            => /\ resp[t].status = 200
               /\ resp[t].body.users = LiveFrom(1, Len(issued) + 1)

\* a listing of two users after a PUT was the latest request to save
C14_Witness ==
    \E t \in Threads :
        /\ Done(t) /\ req[t].op = "list"
        /\ Len(resp[t].body.users) = 2
        /\ resp[t].body.users[1].username = "bob"
        /\ resp[t].body.users[2].username = "a"
        /\ lastCreated = NoUser

\* C16: a GET takes no lock, so it reads data.json as it is at that
\* instant: while a save_db has the file truncated it reads neither the
\* document before the write nor the one after it, and json.load fails;
\* otherwise it answers from the document the file holds.
ReadsNow(t) == IsReader(req[t]) /\ pc[t] = "load" /\ pc'[t] = "done"

C16_ReaderSeesFileAsIs ==
    [][\A t \in Threads :
        ReadsNow(t) =>
            IF fvalid
            THEN /\ resp'[t].status \in {200, 404}
                 /\ req[t].op = "list" => resp'[t].body.users = fdoc.users
                 /\ req[t].op = "get" =>
                        (resp'[t].status = 200
                            <=> req[t].id \in IdsOf(fdoc.users))
            ELSE resp'[t].status = 500]_vars

\* a GET answered 500 from the file a POST, PUT or DELETE has truncated
\* and not yet rewritten, though a user had been stored before
C16_Witness ==
    \E t, u \in Threads :
        /\ Done(t) /\ IsReader(req[t]) /\ resp[t].status = 500
        /\ lock = u /\ pc[u] = "save_close"
        /\ ~fvalid
        /\ issued # <<>>

\* C17: every response carries the CORS header, the guard's 401 included.
C17_EveryResponseHasCors ==
    \A t \in Threads :
        Done(t) => "Access-Control-Allow-Origin" \in resp[t].headers

\* C18: with requests served one after another, once _ensure_db has run
\* the file exists and parses; it holds the default document if it was
\* absent and the document it held otherwise; the first 201 carries id 1.
PastEnsure(t) == pc[t] = "load"

C18_EnsureIdempotent ==
    /\ \A t \in Threads :
            PastEnsure(t) => /\ exists
                             /\ fvalid
                             /\ fdoc = preDoc
    /\ issued # <<>> => issued[1] = 1

\* _ensure_db has run on a file that holds a user
C18_Witness ==
    \E t \in Threads :
        /\ PastEnsure(t)
        /\ fvalid
        /\ fdoc.users # <<>>

\* C15: LOCK is held only by a request inside its "with LOCK" block: every
\* way out of it (the return, the 404 of PUT and DELETE, an exception of
\* load_db or save_db) releases it; and under fair scheduling every request
\* waiting for LOCK gets it.
C15_LockReleasedAndAcquired ==
    /\ [](\A t \in Threads : lock = t => InSection(t))
    /\ \A t \in Threads : (pc[t] = "acquire") ~> (lock = t)

\* a mutating request ended by an exception, and another one holds LOCK
C15_Witness ==
    \E t, u \in Threads :
        /\ t # u
        /\ Done(t) /\ IsMutating(req[t]) /\ resp[t].status = 500
        /\ lock = u

====
